---------------------------- MODULE Spec2Model ----------------------------
(***************************************************************************)
(* Model of the gradient-descent matrix factorisation of                   *)
(* "Matrix Factorization using Gradient Descent Excercise.ipynb":          *)
(* lossfunc, grads and the loop of sgd.                                    *)
(*                                                                         *)
(* Numbers: the notebook computes in floating point.  The model computes   *)
(* in exact rational arithmetic; a number is a pair <<n, d>> in lowest     *)
(* terms with d > 0, so that 0.5, the mean over m*n entries and a          *)
(* fractional step size are represented exactly and equal values have      *)
(* equal representations.  Matrices are sequences of rows.                 *)
(***************************************************************************)
EXTENDS Integers, Sequences, FiniteSets, TLC

VARIABLES Mat, num_topics, eta, lamda, epsilon,
          W, H, i, Error1, Error2,
          w_history, h_history, loss_history,
          pc, ret

vars == <<Mat, num_topics, eta, lamda, epsilon, W, H, i, Error1, Error2,
          w_history, h_history, loss_history, pc, ret>>

(***************************************************************************)
(* Bounds of the model.                                                    *)
(***************************************************************************)
\* the loop body is explored for at most MaxIter iterations
MaxIter == 3
\* entries of the input matrix are drawn from 0..MaxV
MaxV == 1
\* initial entries of W and H are drawn from {1/2, ..., MaxInit/2}
MaxInit == 2
\* an iteration is explored only while the numerators and denominators of
\* the entries of W and H are at most MaxMag
MaxMag == 16

(***************************************************************************)
(* Exact rational arithmetic standing for the notebook's float arithmetic. *)
(***************************************************************************)
Abs(x) == IF x < 0 THEN -x ELSE x

RECURSIVE GCD(_, _)
GCD(a, b) == IF b = 0 THEN a ELSE GCD(b, a % b)

\* n/d in lowest terms (d > 0)
Rat(n, d) == LET g == GCD(Abs(n), d) IN <<n \div g, d \div g>>

Zero == <<0, 1>>
Half == <<1, 2>>

RAdd(a, b) ==
    LET g == GCD(a[2], b[2])
        l == (a[2] \div g) * b[2]
    IN  Rat(a[1] * (l \div a[2]) + b[1] * (l \div b[2]), l)

RNeg(a) == <<-a[1], a[2]>>

RSub(a, b) == RAdd(a, RNeg(b))

RMul(a, b) ==
    LET g1 == GCD(Abs(a[1]), b[2])
        g2 == GCD(Abs(b[1]), a[2])
    IN  Rat((a[1] \div g1) * (b[1] \div g2), (a[2] \div g2) * (b[2] \div g1))

\* np.abs on a scalar
RAbs(a) == <<Abs(a[1]), a[2]>>

\* a < b
RLess(a, b) == RSub(a, b)[1] < 0

\* the function f on 1..k as the sequence <<f[1], ..., f[k]>>
RECURSIVE Tuple(_, _)
Tuple(f, k) == IF k = 0 THEN <<>> ELSE Append(Tuple(f, k - 1), f[k])

\* sum of the rationals f[1] .. f[k]
RECURSIVE RSum(_, _)
RSum(f, k) == IF k = 0 THEN Zero ELSE RAdd(RSum(f, k - 1), f[k])

(***************************************************************************)
(* Dense matrices: numpy arrays of shape (Rows(A), Cols(A)), held as a     *)
(* sequence of rows.                                                       *)
(***************************************************************************)
Rows(A) == Len(A)
Cols(A) == Len(A[1])

\* A.shape
Shape(A) == <<Rows(A), Cols(A)>>

\* the rows x cols array with entry f[r][c] at (r, c)
Dense(f, rows, cols) ==
    Tuple([r \in 1..rows |-> Tuple([c \in 1..cols |-> f[r][c]], cols)], rows)

\* A.T
Transpose(A) ==
    Dense([r \in 1..Cols(A) |-> [c \in 1..Rows(A) |-> A[c][r]]], Cols(A), Rows(A))

\* np.matmul(A, B), A @ B
matmul(A, B) ==
    Dense([r \in 1..Rows(A) |-> [c \in 1..Cols(B) |->
               RSum([k \in 1..Cols(A) |-> RMul(A[r][k], B[k][c])], Cols(A))]],
          Rows(A), Cols(B))

\* A - B, elementwise
MSub(A, B) ==
    Dense([r \in 1..Rows(A) |-> [c \in 1..Cols(A) |-> RSub(A[r][c], B[r][c])]],
          Rows(A), Cols(A))

\* A + B, elementwise
MAdd(A, B) ==
    Dense([r \in 1..Rows(A) |-> [c \in 1..Cols(A) |-> RAdd(A[r][c], B[r][c])]],
          Rows(A), Cols(A))

\* s * A, scalar times array
MScale(s, A) ==
    Dense([r \in 1..Rows(A) |-> [c \in 1..Cols(A) |-> RMul(s, A[r][c])]],
          Rows(A), Cols(A))

\* sum of all entries of A
SumAll(A) == RSum([r \in 1..Rows(A) |-> RSum(A[r], Cols(A))], Rows(A))

\* np.square(np.linalg.norm(A)): the squared Frobenius norm
SquareNorm(A) ==
    RSum([r \in 1..Rows(A) |->
             RSum([c \in 1..Cols(A) |-> RMul(A[r][c], A[r][c])], Cols(A))],
         Rows(A))

\* a lossfunc whose lambda term is (lamda/2)*(||W||^2 + ||H||^2)
lossfuncNormH(M, Wm, Hm, lam) ==
    RAdd(RMul(Half, SquareNorm(MSub(M, matmul(Wm, Hm)))),
         RMul(RMul(Half, lam), RAdd(SquareNorm(Wm), SquareNorm(Hm))))

\* np.mean(A)
mean(A) == RMul(SumAll(A), <<1, Rows(A) * Cols(A)>>)

(***************************************************************************)
(* lossfunc and grads.                                                     *)
(***************************************************************************)
lossfunc(M, Wm, Hm, lam) ==
    LET Mat_pred == matmul(Wm, Hm)
    IN  RAdd(RMul(Half, SquareNorm(MSub(M, Mat_pred))),
             RMul(RMul(Half, lam),
                  RAdd(SquareNorm(Wm), SquareNorm(MSub(M, Mat_pred)))))

\* a bug that takes the residual with the opposite sign (Mat - W@H)
gradsResidualSign(M, Wm, Hm, lam) ==
    LET grad_w == MAdd(matmul(MSub(M, matmul(Wm, Hm)), Transpose(Hm)),
                       MScale(lam, Wm))
        grad_h == MAdd(matmul(Transpose(Wm), MSub(M, matmul(Wm, Hm))),
                       MScale(lam, Hm))
    IN  <<grad_w, grad_h>>

grads(M, Wm, Hm, lam) ==
    LET grad_w == MAdd(matmul(MSub(matmul(Wm, Hm), M), Transpose(Hm)),
                       MScale(lam, Wm))
        grad_h == MAdd(matmul(Transpose(Wm), MSub(matmul(Wm, Hm), M)),
                       MScale(lam, Hm))
    IN  <<grad_w, grad_h>>


(***************************************************************************)
(* Inputs of sgd explored by the model.                                    *)
(***************************************************************************)
\* (m, n, num_topics): Mat is m x n
Shapes == {<<1, 1, 1>>, <<2, 1, 1>>, <<1, 2, 1>>, <<2, 2, 1>>, <<1, 1, 2>>}

\* all m x n matrices with entries in S
Matrices(m, n, S) == [1..m -> [1..n -> S]]

\* entries of the input matrix
VVals == {<<v, 1>> : v \in 0..MaxV}

\* |normal(scale=0.01)| samples: positive values
InitVals == {Rat(k, 2) : k \in 1..MaxInit}

EtaVals == {Zero, Half, <<1, 1>>}
LamdaVals == {Zero, Half}
EpsilonVals == {<<1, 8>>, Half}

\* value of a local that is not bound yet
NoValue == "unbound"

\* W = np.abs(np.random.normal(scale=0.01, size=(m,num_topics)))
InitW(m, t) == Matrices(m, t, InitVals)

\* a bug that passes size=(n,num_topics)
InitHSwapped(t, n) == Matrices(n, t, InitVals)

\* H = np.abs(np.random.normal(scale=0.01, size=(num_topics,n)))
InitH(t, n) == Matrices(t, n, InitVals)

(***************************************************************************)
(* The pieces of the loop body of sgd.                                     *)
(***************************************************************************)
\* a bug that rebinds the list to [x] instead of appending to it
appendRebind(list, x) == <<x>>

\* list.append(x)
append(list, x) == Append(list, x)

\* a bug that updates W first and computes the gradient of H from the new W
StepSequential(M, Wm, Hm, et, lam) ==
    LET W1 == MSub(Wm, MScale(et, grads(M, Wm, Hm, lam)[1]))
    IN  <<W1, MSub(Hm, MScale(et, grads(M, W1, Hm, lam)[2]))>>

\* grad_w,grad_h = grads(Mat,W,H,lamda); W = W - eta*grad_w; H = H - eta*grad_h
Step(M, Wm, Hm, et, lam) ==
    LET g == grads(M, Wm, Hm, lam)
    IN  <<MSub(Wm, MScale(et, g[1])), MSub(Hm, MScale(et, g[2]))>>

\* an estimate of the error that no cancellation can lower: the mean of the
\* squared entries of the residual
ErrorEstimateSquares(M, Wm, Hm) ==
    RMul(SquareNorm(MSub(M, matmul(Wm, Hm))), <<1, Rows(M) * Cols(M)>>)

\* a bug that leaves out np.abs
ErrorEstimateSigned(M, Wm, Hm) == mean(MSub(M, matmul(Wm, Hm)))

\* Error2 = np.abs(np.mean(Mat -W@H))
ErrorEstimate(M, Wm, Hm) == RAbs(mean(MSub(M, matmul(Wm, Hm))))

\* a bug that stops on <= epsilon
ConvergedLeq(e1, e2, eps) == ~RLess(eps, RAbs(RSub(e1, e2)))

\* (np.abs(Error1-Error2)) < epsilon
Converged(e1, e2, eps) == RLess(RAbs(RSub(e1, e2)), eps)

\* every entry of A has numerator and denominator of size at most MaxMag
InRange(A) ==
    \A r \in 1..Rows(A) : \A c \in 1..Cols(A) :
        Abs(A[r][c][1]) <= MaxMag /\ A[r][c][2] <= MaxMag

(***************************************************************************)
(* State of "Recommender System with SVD.ipynb": the notebook's globals    *)
(* data, train, test, utilMat, users_index, items_index, the arguments and *)
(* the result of rmse, and the cell being run.  While sgd runs, these are  *)
(* unbound and stay so.                                                    *)
(***************************************************************************)
VARIABLES data, train, test, utilMat, users_index, items_index,
          true, pred, error, cell

recVars == <<data, train, test, utilMat, users_index, items_index,
             true, pred, error, cell>>

\* show_topics: its argument (topic_rows), the global vocab and its result;
\* the linear program cell: a point sol_x, its slack h - G*x, its cost c'x
VARIABLES topic_rows, vocab, topics, sol_x, slack, pcost

auxVars == <<topic_rows, vocab, topics, sol_x, slack, pcost>>

allVars == <<vars, recVars, auxVars>>

\* neither show_topics nor the linear program cell is being run
AuxIdle ==
    /\ topic_rows = NoValue
    /\ vocab = NoValue
    /\ topics = NoValue
    /\ sol_x = NoValue
    /\ slack = NoValue
    /\ pcost = NoValue

\* the recommender notebook is not being run
RecIdle ==
    /\ data = NoValue
    /\ train = NoValue
    /\ test = NoValue
    /\ utilMat = NoValue
    /\ users_index = NoValue
    /\ items_index = NoValue
    /\ true = NoValue
    /\ pred = NoValue
    /\ error = NoValue
    /\ cell = "idle"

(***************************************************************************)
(* sgd as a state machine.  pc = "while": at the head of the loop;         *)
(* pc = "return": the loop was left by break; pc = "done": sgd returned.   *)
(***************************************************************************)
Init ==
    /\ \E s \in Shapes :
          /\ Mat \in Matrices(s[1], s[2], VVals)
          /\ num_topics = s[3]
          /\ W \in InitW(s[1], s[3])
          /\ H \in InitH(s[3], s[2])
    /\ eta \in EtaVals
    /\ lamda \in LamdaVals
    /\ epsilon \in EpsilonVals
    /\ i = 0
    /\ Error1 = NoValue
    /\ Error2 = Zero
    /\ w_history = <<>>
    /\ h_history = <<>>
    /\ loss_history = <<>>
    /\ pc = "while"
    /\ ret = NoValue
    /\ RecIdle
    /\ AuxIdle

\* a bug that computes the recorded loss after the update
IterateLossAfterUpdate ==
    /\ pc = "while"
    /\ i < MaxIter
    /\ InRange(W)
    /\ InRange(H)
    /\ w_history' = append(w_history, W)
    /\ h_history' = append(h_history, H)
    /\ \E new \in {Step(Mat, W, H, eta, lamda)} :
          /\ W' = new[1]
          /\ H' = new[2]
    /\ loss_history' = append(loss_history, lossfunc(Mat, W', H', lamda))
    /\ i' = i + 1
    /\ Error1' = Error2
    /\ Error2' = ErrorEstimate(Mat, W', H')
    /\ pc' = IF Converged(Error1', Error2', epsilon) THEN "return" ELSE "while"
    /\ UNCHANGED <<num_topics, eta, lamda, epsilon, ret, Mat>>
    /\ UNCHANGED <<recVars, auxVars>>

\* a bug that takes the residual in place (Mat -= W@H)
IterateInPlace ==
    /\ pc = "while"
    /\ i < MaxIter
    /\ InRange(W)
    /\ InRange(H)
    /\ w_history' = append(w_history, W)
    /\ h_history' = append(h_history, H)
    /\ loss_history' = append(loss_history, lossfunc(Mat, W, H, lamda))
    /\ \E new \in {Step(Mat, W, H, eta, lamda)} :
          /\ W' = new[1]
          /\ H' = new[2]
    /\ i' = i + 1
    /\ Error1' = Error2
    /\ Mat' = MSub(Mat, matmul(W', H'))
    /\ Error2' = RAbs(mean(Mat'))
    /\ pc' = IF Converged(Error1', Error2', epsilon) THEN "return" ELSE "while"
    /\ UNCHANGED <<num_topics, eta, lamda, epsilon, ret>>
    /\ UNCHANGED <<recVars, auxVars>>

\* a bug (or a silent fix) that leaves the loop after two iterations whatever
\* the error estimates are
IterateCapped ==
    /\ pc = "while"
    /\ i < MaxIter
    /\ InRange(W)
    /\ InRange(H)
    /\ w_history' = append(w_history, W)
    /\ h_history' = append(h_history, H)
    /\ loss_history' = append(loss_history, lossfunc(Mat, W, H, lamda))
    /\ \E new \in {Step(Mat, W, H, eta, lamda)} :
          /\ W' = new[1]
          /\ H' = new[2]
    /\ i' = i + 1
    /\ Error1' = Error2
    /\ Error2' = ErrorEstimate(Mat, W', H')
    /\ pc' = IF Converged(Error1', Error2', epsilon) \/ i' >= 2
             THEN "return" ELSE "while"
    /\ UNCHANGED <<Mat, num_topics, eta, lamda, epsilon, ret>>
    /\ UNCHANGED <<recVars, auxVars>>

\* a change that raises when the error estimate grows
IterateRaiseOnDivergence ==
    /\ pc = "while"
    /\ i < MaxIter
    /\ InRange(W)
    /\ InRange(H)
    /\ w_history' = append(w_history, W)
    /\ h_history' = append(h_history, H)
    /\ loss_history' = append(loss_history, lossfunc(Mat, W, H, lamda))
    /\ \E new \in {Step(Mat, W, H, eta, lamda)} :
          /\ W' = new[1]
          /\ H' = new[2]
    /\ i' = i + 1
    /\ Error1' = Error2
    /\ Error2' = ErrorEstimate(Mat, W', H')
    /\ pc' = IF i >= 1 /\ RLess(Error1', Error2') THEN "raised"
             ELSE IF Converged(Error1', Error2', epsilon) THEN "return"
             ELSE "while"
    /\ UNCHANGED <<Mat, num_topics, eta, lamda, epsilon, ret>>
    /\ UNCHANGED <<recVars, auxVars>>

\* a change that reads loss_history: it also leaves the loop when the loss
\* recorded in this iteration is larger than the one recorded before it
IterateStopOnLossRise ==
    /\ pc = "while"
    /\ i < MaxIter
    /\ InRange(W)
    /\ InRange(H)
    /\ w_history' = append(w_history, W)
    /\ h_history' = append(h_history, H)
    /\ loss_history' = append(loss_history, lossfunc(Mat, W, H, lamda))
    /\ \E new \in {Step(Mat, W, H, eta, lamda)} :
          /\ W' = new[1]
          /\ H' = new[2]
    /\ i' = i + 1
    /\ Error1' = Error2
    /\ Error2' = ErrorEstimate(Mat, W', H')
    /\ pc' = IF \/ Converged(Error1', Error2', epsilon)
                \/ /\ i >= 1
                   /\ RLess(loss_history'[i], loss_history'[i + 1])
             THEN "return" ELSE "while"
    /\ UNCHANGED <<Mat, num_topics, eta, lamda, epsilon, ret>>
    /\ UNCHANGED <<recVars, auxVars>>

\* a bug that appends W and H to the histories after the update
IterateAppendAfterUpdate ==
    /\ pc = "while"
    /\ i < MaxIter
    /\ InRange(W)
    /\ InRange(H)
    /\ loss_history' = append(loss_history, lossfunc(Mat, W, H, lamda))
    /\ \E new \in {Step(Mat, W, H, eta, lamda)} :
          /\ W' = new[1]
          /\ H' = new[2]
    /\ w_history' = append(w_history, W')
    /\ h_history' = append(h_history, H')
    /\ i' = i + 1
    /\ Error1' = Error2
    /\ Error2' = ErrorEstimate(Mat, W', H')
    /\ pc' = IF Converged(Error1', Error2', epsilon) THEN "return" ELSE "while"
    /\ UNCHANGED <<Mat, num_topics, eta, lamda, epsilon, ret>>
    /\ UNCHANGED <<recVars, auxVars>>

\* a bug that assigns Error1 in the first iteration only
IterateError1Stale ==
    /\ pc = "while"
    /\ i < MaxIter
    /\ InRange(W)
    /\ InRange(H)
    /\ w_history' = append(w_history, W)
    /\ h_history' = append(h_history, H)
    /\ loss_history' = append(loss_history, lossfunc(Mat, W, H, lamda))
    /\ \E new \in {Step(Mat, W, H, eta, lamda)} :
          /\ W' = new[1]
          /\ H' = new[2]
    /\ i' = i + 1
    /\ Error1' = IF i = 0 THEN Error2 ELSE Error1
    /\ Error2' = ErrorEstimate(Mat, W', H')
    /\ pc' = IF Converged(Error1', Error2', epsilon) THEN "return" ELSE "while"
    /\ UNCHANGED <<Mat, num_topics, eta, lamda, epsilon, ret>>
    /\ UNCHANGED <<recVars, auxVars>>

\* one pass through the body of while(1)
Iterate ==
    /\ pc = "while"
    /\ i < MaxIter
    /\ InRange(W)
    /\ InRange(H)
    /\ w_history' = append(w_history, W)
    /\ h_history' = append(h_history, H)
    /\ loss_history' = append(loss_history, lossfunc(Mat, W, H, lamda))
    /\ \E new \in {Step(Mat, W, H, eta, lamda)} :
          /\ W' = new[1]
          /\ H' = new[2]
    /\ i' = i + 1
    /\ Error1' = Error2
    /\ Error2' = ErrorEstimate(Mat, W', H')
    /\ pc' = IF Converged(Error1', Error2', epsilon) THEN "return" ELSE "while"
    /\ UNCHANGED <<Mat, num_topics, eta, lamda, epsilon, ret>>
    /\ UNCHANGED <<recVars, auxVars>>

\* return(W,H,loss_history,h_history,w_history,i,Error2)
Return ==
    /\ pc = "return"
    /\ ret' = <<W, H, loss_history, h_history, w_history, i, Error2>>
    /\ pc' = "done"
    /\ UNCHANGED <<Mat, num_topics, eta, lamda, epsilon, W, H, i, Error1, Error2,
                   w_history, h_history, loss_history>>
    /\ UNCHANGED <<recVars, auxVars>>

Next == Iterate \/ Return

Spec == Init /\ [][Next]_allVars


(***************************************************************************)
(* "Recommender System with SVD.ipynb".  A row of the ratings table is     *)
(* <<userId, movieId, rating, timestamp>>; a table is a sequence of rows.  *)
(***************************************************************************)
\* sgd is not being run
SgdIdle ==
    /\ Mat = NoValue
    /\ num_topics = NoValue
    /\ eta = NoValue
    /\ lamda = NoValue
    /\ epsilon = NoValue
    /\ W = NoValue
    /\ H = NoValue
    /\ i = NoValue
    /\ Error1 = NoValue
    /\ Error2 = NoValue
    /\ w_history = NoValue
    /\ h_history = NoValue
    /\ loss_history = NoValue
    /\ pc = "idle"
    /\ ret = NoValue

\* ratings are drawn from 1..MaxRating
MaxRating == 2
\* predicted ratings are drawn from 1..MaxPred
MaxPred == 3
\* rmse is applied to sequences of at most MaxLen ratings
MaxLen == 3

Ratings == {<<v, 1>> : v \in 1..MaxRating}
Preds == {<<v, 1>> : v \in 1..MaxPred}

(***************************************************************************)
(* rmse.                                                                   *)
(***************************************************************************)
\* x = true - pred; return sum([xi*xi for xi in x])/len(x)   (len(x) > 0)
rmse(t, p) ==
    LET x == Tuple([k \in 1..Len(t) |-> RSub(t[k], p[k])], Len(t))
    IN  RMul(RSum([k \in 1..Len(x) |-> RMul(x[k], x[k])], Len(x)), <<1, Len(x)>>)

InitRmse ==
    /\ \E k \in 0..MaxLen :
          /\ true \in [1..k -> Ratings]
          /\ pred \in [1..k -> Preds]
    /\ error = NoValue
    /\ cell = "rmse"
    /\ data = NoValue
    /\ train = NoValue
    /\ test = NoValue
    /\ utilMat = NoValue
    /\ users_index = NoValue
    /\ items_index = NoValue
    /\ AuxIdle
    /\ SgdIdle

\* rmse(true, pred) on sequences that are not empty
RmseCall ==
    /\ cell = "rmse"
    /\ Len(true) > 0
    /\ error' = rmse(true, pred)
    /\ cell' = "done"
    /\ UNCHANGED <<data, train, test, utilMat, users_index, items_index, true, pred>>
    /\ UNCHANGED <<vars, auxVars>>

\* rmse(true, pred) on empty sequences: the division by len(x) = 0 raises
RmseRaise ==
    /\ cell = "rmse"
    /\ Len(true) = 0
    /\ error' = "ZeroDivisionError"
    /\ cell' = "raised"
    /\ UNCHANGED <<data, train, test, utilMat, users_index, items_index, true, pred>>
    /\ UNCHANGED <<vars, auxVars>>

NextRmse == RmseCall \/ RmseRaise

SpecRmse == InitRmse /\ [][NextRmse]_allVars

(***************************************************************************)
(* create_utility_matrix.                                                  *)
(***************************************************************************)
\* a table handed to create_utility_matrix has at most MaxUtilRows rows
MaxUtilRows == 3

\* data['userId'].astype('str'), data['movieId'].astype('str')
UserIds == {"1", "2"}
MovieIds == {"1", "2"}

\* np.nan, as a ratio no rating has
NaN == <<0, 0>>

\* the set of the elements of a list
Range(l) == {l[k] : k \in 1..Len(l)}

\* data.iloc[:, field].tolist(): the column at the 0-based position field
iloc_column(t, field) == Tuple([k \in 1..Len(t) |-> t[k][field + 1]], Len(t))

\* a list that keeps every element of l, repeated ones included
list_noset(l) == {l}

\* list(set(l)): the distinct elements of l, in an order the hashing of the
\* set decides (every order is possible)
list_set(l) ==
    {s \in [1..Cardinality(Range(l)) -> Range(l)] :
        \A a, b \in 1..Cardinality(Range(l)) : s[a] = s[b] => a = b}

\* {keys[i]: i for i in range(len(keys))}: a later equal key overwrites
index_dict(keys) ==
    [key \in Range(keys) |->
        (CHOOSE p \in 1..Len(keys) :
            /\ keys[p] = key
            /\ \A q \in (p + 1)..Len(keys) : keys[q] # key) - 1]

\* the keys of a dict built from the list l, in insertion order
RECURSIVE dict_keys(_)
dict_keys(l) ==
    IF Len(l) = 0 THEN <<>>
    ELSE LET r == dict_keys(SubSeq(l, 1, Len(l) - 1))
         IN  IF l[Len(l)] \in Range(r) THEN r ELSE Append(r, l[Len(l)])

\* {item: [np.nan for i in range(len(users))] for item in items}
nan_dict(users, items) ==
    [item \in Range(items) |-> Tuple([u \in 1..Len(users) |-> NaN], Len(users))]

\* d[item][position] = value, position 0-based
setitem(d, item, position, value) ==
    [d EXCEPT ![item] = [@ EXCEPT ![position + 1] = value]]

\* pd.DataFrame(d) with X.index = index: one column per key of d, in
\* insertion order, one row per position of the lists
DataFrame(d, keys, index) ==
    [index   |-> index,
     columns |-> keys,
     values  |-> Dense([r \in 1..Len(index) |->
                          [c \in 1..Len(keys) |-> d[keys[c]][r]]],
                       Len(index), Len(keys))]

\* tables of at most MaxUtilRows ratings, no (user, movie) pair rated twice
UtilTables ==
    UNION {{t \in [1..k -> UserIds \X MovieIds \X Ratings \X {0}] :
               \A a, b \in 1..k :
                   (t[a][1] = t[b][1] /\ t[a][2] = t[b][2]) => a = b} :
           k \in 0..MaxUtilRows}

InitUtil ==
    /\ train \in UtilTables
    /\ cell = "create_utility_matrix"
    /\ utilMat = NoValue
    /\ users_index = NoValue
    /\ items_index = NoValue
    /\ data = NoValue
    /\ test = NoValue
    /\ true = NoValue
    /\ pred = NoValue
    /\ error = NoValue
    /\ AuxIdle
    /\ SgdIdle

\* utilMat, users_index, items_index = create_utility_matrix(train), train
\* not empty.  The assignment into pd_dict stands after the loop over the
\* rows, so item, user and value are those of the last row.
CreateUtilityMatrix ==
    /\ cell = "create_utility_matrix"
    /\ Len(train) > 0
    /\ LET userList == iloc_column(train, 0)
           itemList == iloc_column(train, 1)
           valueList == iloc_column(train, 2)
       IN  \E users \in list_set(userList), items \in list_set(itemList) :
             LET index == index_dict(users)
                 item == itemList[Len(train)]
                 user == userList[Len(train)]
                 value == valueList[Len(train)]
                 pd_dict == setitem(nan_dict(users, items), item, index[user], value)
                 X == DataFrame(pd_dict, dict_keys(items), users)
                 itemcols == X.columns
             IN  /\ utilMat' = X
                 /\ users_index' = index
                 /\ items_index' = index_dict(itemcols)
    /\ cell' = "done"
    /\ UNCHANGED <<data, train, test, true, pred, error>>
    /\ UNCHANGED <<vars, auxVars>>

\* create_utility_matrix(train), train empty: the loop body never runs and
\* the read of item after it raises
CreateUtilityMatrixRaise ==
    /\ cell = "create_utility_matrix"
    /\ Len(train) = 0
    /\ utilMat' = "UnboundLocalError"
    /\ cell' = "raised"
    /\ UNCHANGED <<data, train, test, users_index, items_index, true, pred, error>>
    /\ UNCHANGED <<vars, auxVars>>

NextUtil == CreateUtilityMatrix \/ CreateUtilityMatrixRaise

SpecUtil == InitUtil /\ [][NextUtil]_allVars

(***************************************************************************)
(* The train/test split cell.                                              *)
(***************************************************************************)
\* the ratings table has at most MaxRows rows
MaxRows == 5

\* test_ratio = 0.2
test_ratio == Rat(2, 10)

\* int(q) for q >= 0
int(q) == q[1] \div q[2]

\* data['userId'].unique(): the distinct values in order of first appearance
unique(l) == dict_keys(l)

\* data[data['userId'] == u], the rows keeping their order
RECURSIVE rows_of(_, _)
rows_of(t, u) ==
    IF Len(t) = 0 THEN <<>>
    ELSE LET r == rows_of(SubSeq(t, 1, Len(t) - 1), u)
         IN  IF t[Len(t)][1] = u THEN Append(r, t[Len(t)]) ELSE r

\* temp.sort_values('timestamp').reset_index() with the old index dropped:
\* the rows by increasing timestamp (timestamps distinct), labelled 0..n-1
sort_values(t) ==
    Tuple([k \in 1..Len(t) |->
              CHOOSE r \in Range(t) :
                  Cardinality({q \in Range(t) : q[4] < r[4]}) = k - 1], Len(t))

\* t.loc[a :] on labels 0..n-1: the rows labelled a and above
loc_from(t, a) == SubSeq(t, (IF a < 0 THEN 0 ELSE a) + 1, Len(t))

\* t.loc[: b] on labels 0..n-1: the rows labelled up to b, b included
loc_to(t, b) == SubSeq(t, 1, IF b + 1 > Len(t) THEN Len(t) ELSE b + 1)

\* ratings tables of at most MaxRows rows: any user per row, a different
\* movie per row, timestamps 1..k in any order
SplitTables ==
    UNION {{Tuple([j \in 1..k |->
                     <<us[j], ToString(j), <<1 + (j % MaxRating), 1>>, ts[j]>>], k) :
               us \in [1..k -> UserIds],
               ts \in {f \in [1..k -> 1..k] : \A a, b \in 1..k : f[a] = f[b] => a = b}} :
           k \in 0..MaxRows}

InitSplit ==
    /\ data \in SplitTables
    /\ cell = "split"
    /\ train = NoValue
    /\ test = NoValue
    /\ utilMat = NoValue
    /\ users_index = NoValue
    /\ items_index = NoValue
    /\ true = NoValue
    /\ pred = NoValue
    /\ error = NoValue
    /\ AuxIdle
    /\ SgdIdle

\* the split cell on a table that is not empty.  Only the three assignments
\* to temp, n and test_size are in the body of "for u in users"; the sort,
\* the two slices and the two concats stand after the loop and run once, on
\* the rows of the last user.
SplitCell ==
    /\ cell = "split"
    /\ Len(data) > 0
    /\ LET users == unique(iloc_column(data, 0))
           u == users[Len(users)]
           n == Len(rows_of(data, u))
           test_size == int(RMul(test_ratio, <<n, 1>>))
           temp == sort_values(rows_of(data, u))
           dummy_test == loc_from(temp, n - 1 - test_size)
           dummy_train == loc_to(temp, n - 2 - test_size)
       IN  /\ test' = <<>> \o dummy_test
           /\ train' = <<>> \o dummy_train
    /\ cell' = "done"
    /\ UNCHANGED <<data, utilMat, users_index, items_index, true, pred, error>>
    /\ UNCHANGED <<vars, auxVars>>

\* the split cell on an empty table: the loop body never runs and the read
\* of temp after it raises, leaving test and train empty
SplitCellRaise ==
    /\ cell = "split"
    /\ Len(data) = 0
    /\ test' = <<>>
    /\ train' = <<>>
    /\ cell' = "raised"
    /\ UNCHANGED <<data, utilMat, users_index, items_index, true, pred, error>>
    /\ UNCHANGED <<vars, auxVars>>

NextSplit == SplitCell \/ SplitCellRaise

SpecSplit == InitSplit /\ [][NextSplit]_allVars

(***************************************************************************)
(* show_topics.  A string is held as the sequence of its pieces (words and *)
(* separators); a weight is a number that argsort only compares.           *)
(***************************************************************************)
\* num_top_words=8
num_top_words == 8

\* show_topics is applied to at most MaxTopics rows
MaxTopics == 2
\* the vocabulary has num_top_words + MaxSpare words
MaxSpare == 1

\* vocab = np.array(vectorizer_tfidf.get_feature_names())
Words == <<"graphics", "edu", "pub", "mail", "128", "3d", "ray", "ftp",
           "jesus", "god", "space", "nasa">>
Vocab == SubSeq(Words, 1, num_top_words + MaxSpare)

\* rows of weights over the vocabulary: a ramp 0..V-1 going up or down from
\* any word; a ramp going up is also taken with its two largest weights made
\* equal and with the weights of rank num_top_words and num_top_words + 1
\* made equal
TopicRows ==
    LET V == Len(Vocab)
        ramp(up, shift, j) == IF up THEN (j + shift) % V ELSE (2 * V - j + shift) % V
        weight(tie, w) == IF tie = "top" /\ w = V - 1 THEN V - 2
                          ELSE IF tie = "cut" /\ w = V - num_top_words - 1
                               THEN V - num_top_words
                               ELSE w
    IN  {Tuple([j \in 1..V |-> weight(kind[2], ramp(kind[1], shift, j))], V) :
            shift \in 0..(V - 1),
            kind \in {<<TRUE, "none">>, <<TRUE, "top">>, <<TRUE, "cut">>,
                      <<FALSE, "none">>}}

\* np.argsort(t): the 0-based positions of t by increasing weight, equal
\* weights in an order the sort decides (every order is possible)
RECURSIVE argsorts(_, _)
argsorts(t, rest) ==
    IF rest = {} THEN {<<>>}
    ELSE UNION {{<<p>> \o o : o \in argsorts(t, rest \ {p})} :
                   p \in {q \in rest : \A r \in rest : t[q + 1] <= t[r + 1]}}

argsort(t) == argsorts(t, 0..(Len(t) - 1))

\* l[:-stop-1], stop < 0: the first -stop-1 elements
slice_head(l, stop) == SubSeq(l, 1, IF -stop - 1 > Len(l) THEN Len(l) ELSE -stop - 1)

\* l[:stop:-1], stop < 0: from the last element backwards, down to but
\* without the element at position len(l) + stop
slice_reversed(l, stop) ==
    LET L == Len(l)
        lo == IF stop + L < 0 THEN -1 ELSE stop + L
    IN  Tuple([k \in 1..(L - 1 - lo) |-> l[L + 1 - k]], L - 1 - lo)

\* sep.join(l)
join(sep, l) ==
    IF Len(l) = 0 THEN <<>>
    ELSE Tuple([k \in 1..(2 * Len(l) - 1) |->
                   IF k % 2 = 1 THEN l[(k + 1) \div 2] ELSE sep], 2 * Len(l) - 1)

\* top_words = lambda t: [vocab[i] for i in np.argsort(t)[:-num_top_words-1:-1]],
\* every list the sort can give
top_words(t) ==
    {LET top == slice_reversed(o, -num_top_words - 1)
     IN  Tuple([k \in 1..Len(top) |-> vocab[top[k] + 1]], Len(top)) :
        o \in argsort(t)}

\* [' '.join(t) for t in [top_words(t) for t in a]], every result possible
RECURSIVE show_topics(_)
show_topics(rows) ==
    IF Len(rows) = 0 THEN {<<>>}
    ELSE {Append(l, join(" ", tw)) :
             l \in show_topics(SubSeq(rows, 1, Len(rows) - 1)),
             tw \in top_words(rows[Len(rows)])}

InitTopics ==
    /\ vocab = Vocab
    /\ \E k \in 0..MaxTopics : topic_rows \in [1..k -> TopicRows]
    /\ topics = NoValue
    /\ sol_x = NoValue
    /\ slack = NoValue
    /\ pcost = NoValue
    /\ cell = "show_topics"
    /\ data = NoValue
    /\ train = NoValue
    /\ test = NoValue
    /\ utilMat = NoValue
    /\ users_index = NoValue
    /\ items_index = NoValue
    /\ true = NoValue
    /\ pred = NoValue
    /\ error = NoValue
    /\ SgdIdle

\* show_topics(a)
ShowTopics ==
    /\ cell = "show_topics"
    /\ topics' \in show_topics(topic_rows)
    /\ cell' = "done"
    /\ UNCHANGED <<topic_rows, vocab, sol_x, slack, pcost>>
    /\ UNCHANGED <<data, train, test, utilMat, users_index, items_index, true, pred, error>>
    /\ UNCHANGED vars

NextTopics == ShowTopics

SpecTopics == InitTopics /\ [][NextTopics]_allVars

(***************************************************************************)
(* The linear program of the car factories: minimize c'x subject to        *)
(* G*x <= h.  cvxopt's matrix takes a list of columns.                     *)
(***************************************************************************)
\* the first three factories produce up to MaxFew cars above their minimum
MaxFew == 2
\* the fourth factory produces up to MaxCars cars
MaxCars == 192

\* c = matrix([-1.,-1.,-1.,-1.])
lp_c == <<-1, -1, -1, -1>>

\* G with the labour of a car of factory 4 taken as 1
GCheapLabour ==
    <<<<-1, 0, 0, 0, 10, 3, 3>>,
      <<0, -1, 0, 0, 5, 3, 6>>,
      <<0, 0, -1, 0, 3, 4, 7>>,
      <<0, 0, 0, -1, 11, 1, 3>>>>

\* G = matrix([[-1.,0.,0.,0.,10.,3.,3.], [0.,-1.,0.,0.,5.,3.,6.],
\*             [0.,0.,-1.,0.,3.,4.,7.], [0.,0.,0.,-1.,11.,2.,3.]]), by columns
lp_G ==
    <<<<-1, 0, 0, 0, 10, 3, 3>>,
      <<0, -1, 0, 0, 5, 3, 6>>,
      <<0, 0, -1, 0, 3, 4, 7>>,
      <<0, 0, 0, -1, 11, 2, 3>>>>

\* h = matrix([-1., -1., -4., -1.,12000.,400.,1600])
lp_h == <<-1, -1, -4, -1, 12000, 400, 1600>>

\* the sum of the integers f[1] .. f[k]
RECURSIVE ISum(_, _)
ISum(f, k) == IF k = 0 THEN 0 ELSE ISum(f, k - 1) + f[k]

\* row r of G*pt
Gx(pt, r) == ISum([j \in 1..Len(lp_G) |-> lp_G[j][r] * pt[j]], Len(lp_G))

\* c'pt
cost(pt) == ISum([j \in 1..Len(lp_c) |-> lp_c[j] * pt[j]], Len(lp_c))

\* "Your solution should be: [1, 1, 4, 189]"
ExpectedSolution == <<1, 1, 4, 189>>

\* points to try: each of the first three factories from one car below its
\* minimum to MaxFew above it, the fourth from 0 to MaxCars
Points ==
    {<<p1, p2, p3, p4>> :
        p1 \in (-lp_h[1] - 1)..(-lp_h[1] + MaxFew),
        p2 \in (-lp_h[2] - 1)..(-lp_h[2] + MaxFew),
        p3 \in (-lp_h[3] - 1)..(-lp_h[3] + MaxFew),
        p4 \in 0..MaxCars}

InitLP ==
    /\ sol_x \in Points
    /\ slack = NoValue
    /\ pcost = NoValue
    /\ topic_rows = NoValue
    /\ vocab = NoValue
    /\ topics = NoValue
    /\ cell = "lp"
    /\ data = NoValue
    /\ train = NoValue
    /\ test = NoValue
    /\ utilMat = NoValue
    /\ users_index = NoValue
    /\ items_index = NoValue
    /\ true = NoValue
    /\ pred = NoValue
    /\ error = NoValue
    /\ SgdIdle

\* the program at the point sol_x: the slack h - G*x of each constraint and
\* the primal cost c'x
EvaluateLP ==
    /\ cell = "lp"
    /\ slack' = Tuple([r \in 1..Len(lp_h) |-> lp_h[r] - Gx(sol_x, r)], Len(lp_h))
    /\ pcost' = cost(sol_x)
    /\ cell' = "done"
    /\ UNCHANGED <<topic_rows, vocab, topics, sol_x>>
    /\ UNCHANGED <<data, train, test, utilMat, users_index, items_index, true, pred, error>>
    /\ UNCHANGED vars

NextLP == EvaluateLP

SpecLP == InitLP /\ [][NextLP]_allVars

(***************************************************************************)
(* The objective of the notebook's text:                                   *)
(* F(H,W) = 1/2 ||V - WH||^2 + lambda/2 (||H||^2 + ||W||^2).               *)
(***************************************************************************)
Objective(M, Wm, Hm, lam) ==
    RAdd(RMul(Half, SquareNorm(MSub(M, matmul(Wm, Hm)))),
         RMul(RMul(Half, lam), RAdd(SquareNorm(Hm), SquareNorm(Wm))))

(***************************************************************************)
(* Properties.                                                             *)
(***************************************************************************)
\* at least one iteration has completed
Iterated == i >= 1

\* W and H are in the range in which the loop body is explored
Explored == InRange(W) /\ InRange(H)

C2_SimultaneousUpdate ==
    Iterated =>
        LET Wk == w_history[i]
            Hk == h_history[i]
            g == grads(Mat, Wk, Hk, lamda)
        IN  /\ W = MSub(Wk, MScale(eta, g[1]))
            /\ H = MSub(Hk, MScale(eta, g[2]))

\* C2 witness: an iteration after which a sequential update would have given another H
C2_Witness ==
    /\ Iterated
    /\ StepSequential(Mat, w_history[i], h_history[i], eta, lamda)[2] # H

\* C3 (as claimed): lossfunc returns the objective with lambda/2 (||W||^2 + ||H||^2).
C3_LossfuncIsObjective ==
    Explored => lossfunc(Mat, W, H, lamda) = Objective(Mat, W, H, lamda)

\* entry (r, c) of W@H - Mat, as a sum over the topics
Residual(M, Wm, Hm, r, c) ==
    RSub(RSum([l \in 1..Len(Hm) |-> RMul(Wm[r][l], Hm[l][c])], Len(Hm)), M[r][c])

\* C4: entry by entry, grads returns grad_w[r][k] = sum_c (WH - V)[r][c] H[k][c] +
\* lambda W[r][k] and grad_h[k][c] = sum_r W[r][k] (WH - V)[r][c] + lambda H[k][c].
C4_GradsFormula ==
    Explored =>
        LET g == grads(Mat, W, H, lamda)
            m == Len(Mat)
            n == Len(Mat[1])
            d == num_topics
        IN  /\ Shape(g[1]) = <<m, d>>
            /\ Shape(g[2]) = <<d, n>>
            /\ \A r \in 1..m : \A k \in 1..d :
                  g[1][r][k] =
                      RAdd(RSum([c \in 1..n |->
                                    RMul(Residual(Mat, W, H, r, c), H[k][c])], n),
                           RMul(lamda, W[r][k]))
            /\ \A k \in 1..d : \A c \in 1..n :
                  g[2][k][c] =
                      RAdd(RSum([r \in 1..m |->
                                    RMul(W[r][k], Residual(Mat, W, H, r, c))], m),
                           RMul(lamda, H[k][c]))

\* C4 witness: grads is applied to a 2 x 2 input after an update, with lambda > 0
\* and a residual that is not zero
C4_Witness ==
    /\ Iterated
    /\ W # w_history[1]
    /\ Explored
    /\ pc = "while"
    /\ lamda # Zero
    /\ Shape(Mat) = <<2, 2>>
    /\ \E r \in 1..2 : \E c \in 1..2 : Residual(Mat, W, H, r, c) # Zero

\* C5 (as claimed): the loss appended by an iteration is lossfunc at the W and H
\* that iteration's update produces.
C5_LossAtPostUpdate ==
    Iterated /\ Explored => loss_history[i] = lossfunc(Mat, W, H, lamda)

\* C5 (amended): the loss appended by an iteration is lossfunc at the W and H the
\* iteration starts from, before its update.
C5_LossAtPreUpdate ==
    Iterated => loss_history[i] = lossfunc(Mat, w_history[i], h_history[i], lamda)

\* C5 witness: an iteration whose update changes the value of lossfunc
C5_Witness ==
    /\ Iterated
    /\ Explored
    /\ loss_history[i] # lossfunc(Mat, W, H, lamda)

\* the signed mean of the entries of Mat - W@H
SignedMean == mean(MSub(Mat, matmul(W, H)))

\* C6 (as claimed): the error estimate is the signed mean of Mat - W@H at the
\* post-update W and H.
C6_ErrorIsSignedMean ==
    Iterated /\ Explored => Error2 = SignedMean

\* C6 (amended): the error estimate is the absolute value of the mean of Mat - W@H
\* at the post-update W and H, so it is never negative.
C6_ErrorIsAbsMean ==
    Iterated /\ Explored =>
        /\ Error2[1] >= 0
        /\ Error2 \in {SignedMean, RNeg(SignedMean)}

\* C6 witness: an iteration after which the mean of the residual is negative
C6_Witness ==
    /\ Iterated
    /\ Explored
    /\ SignedMean[1] < 0

\* every entry of A is >= 0
NonNegative(A) == \A r \in 1..Rows(A) : \A c \in 1..Cols(A) : A[r][c][1] >= 0

\* C7 (as claimed): every entry of W and of H is >= 0 throughout sgd.
C7_FactorsNonNegative == NonNegative(W) /\ NonNegative(H)

\* every row of A has cols entries and there are rows of them
HasShape(A, rows, cols) ==
    /\ Len(A) = rows
    /\ \A r \in 1..rows : Len(A[r]) = cols

\* C8: W is m x num_topics and H is num_topics x n at initialisation, after
\* every update and in the returned tuple, for Mat of shape (m, n).
C8_Shapes ==
    /\ HasShape(W, Len(Mat), num_topics)
    /\ HasShape(H, num_topics, Len(Mat[1]))
    /\ pc = "done" =>
          /\ HasShape(ret[1], Len(Mat), num_topics)
          /\ HasShape(ret[2], num_topics, Len(Mat[1]))

\* C8 witness: sgd returned after two or more updates with m, n and num_topics
\* not all equal
C8_Witness ==
    /\ pc = "done"
    /\ i >= 2
    /\ W # w_history[2]
    /\ Len(Mat[1]) # num_topics

\* C9: the loss history has one entry per iteration, an appended entry is never
\* changed or removed, and sgd returns the final W and H with the whole history,
\* whose length is the returned iteration count.
C9_LossHistoryAppendOnly ==
    /\ [](Len(loss_history) = i)
    /\ [](pc = "done" =>
            /\ ret[1] = W
            /\ ret[2] = H
            /\ ret[3] = loss_history
            /\ ret[6] = i
            /\ Len(ret[3]) = ret[6])
    /\ [][/\ Len(loss_history') >= Len(loss_history)
          /\ SubSeq(loss_history', 1, Len(loss_history)) = loss_history]_vars

\* C9 witness: sgd returned a history of three entries
C9_Witness ==
    /\ pc = "done"
    /\ Len(ret[3]) = 3
    /\ ret[3][1] # ret[3][2]

C11_NoIterationCap ==
    [][pc = "while" /\ ~RLess(RAbs(RSub(Error1', Error2')), epsilon)
          => pc' = "while" /\ i' = i + 1]_vars

\* C11 witness: a run still at the loop head after three iterations, its error
\* estimate and its recorded loss growing
C11_Witness ==
    /\ pc = "while"
    /\ i >= 3
    /\ RLess(Error1, Error2)
    /\ RLess(loss_history[i - 1], loss_history[i])

\* C12: sgd has no other outcome than looping or returning, and it has left the
\* loop only after an iteration with |Error1 - Error2| < epsilon, which still
\* holds of the returned Error2.
C12_EndsOnlyByConvergence ==
    /\ pc \in {"while", "return", "done"}
    /\ pc \in {"return", "done"} =>
          /\ Iterated
          /\ RLess(RAbs(RSub(Error1, Error2)), epsilon)
    /\ pc = "done" => ret[6] = i /\ ret[7] = Error2

\* C12 witness: sgd returned although the recorded loss and the error estimate
\* grew in the last iterations
C12_Witness ==
    /\ pc = "done"
    /\ i >= 2
    /\ RLess(Error1, Error2)
    /\ RLess(loss_history[i - 1], loss_history[i])

\* eta is small enough for the step from (Wm, Hm):
\* eta * (||W||^2 + ||H||^2 + (1 + ||V - WH||^2) / 2) <= 1
SmallEnough(et, M, Wm, Hm) ==
    ~RLess(<<1, 1>>,
           RMul(et, RAdd(RAdd(SquareNorm(Wm), SquareNorm(Hm)),
                         RMul(Half, RAdd(<<1, 1>>,
                                         SquareNorm(MSub(M, matmul(Wm, Hm))))))))

\* C15: with lambda = 0, a recorded loss is never larger than the one recorded
\* before it when eta is small enough for the step between the two.
C15_LossNonIncreasing ==
    lamda = Zero =>
        \A k \in 1..(Len(loss_history) - 1) :
            SmallEnough(eta, Mat, w_history[k], h_history[k]) =>
                ~RLess(loss_history[k], loss_history[k + 1])

\* C15 witness: with lambda = 0 and eta > 0 small enough, a recorded loss
\* strictly below the one before it
C15_Witness ==
    /\ lamda = Zero
    /\ eta # Zero
    /\ Len(loss_history) >= 2
    /\ SmallEnough(eta, Mat, w_history[1], h_history[1])
    /\ RLess(loss_history[2], loss_history[1])

\* the sum of the squared differences true[k] - pred[k]
SumSquaredDiff ==
    RSum([k \in 1..Len(true) |->
             RMul(RSub(true[k], pred[k]), RSub(true[k], pred[k]))], Len(true))

\* C18 (as claimed): rmse returns the root of the mean squared difference: the
\* square of its result times the length is the sum of the squared differences.
C18_RmseIsRoot ==
    cell = "done" =>
        /\ error[1] >= 0
        /\ RMul(RMul(error, error), <<Len(true), 1>>) = SumSquaredDiff

\* the cell of the returned matrix for a user and an item
UtilCell(user, item) ==
    utilMat.values[users_index[user] + 1][items_index[item] + 1]

\* C16 (as claimed): the matrix holds every rating of the table at its
\* (user, item) cell, and a cell is NaN only if the table has no row for it.
C16_EveryRatingStored ==
    cell = "done" =>
        /\ \A k \in 1..Len(train) : UtilCell(train[k][1], train[k][2]) = train[k][3]
        /\ \A user \in DOMAIN users_index, item \in DOMAIN items_index :
              UtilCell(user, item) = NaN =>
                  ~\E k \in 1..Len(train) : train[k][1] = user /\ train[k][2] = item

\* C17: the matrix has one row per distinct user and one column per distinct
\* item of the table; users_index and items_index are one-to-one onto
\* 0..n-1 and 0..m-1 and give the position of each id in the matrix's row
\* and column labels.
C17_IndexMaps ==
    cell = "done" =>
        LET U == {train[k][1] : k \in 1..Len(train)}
            I == {train[k][2] : k \in 1..Len(train)}
            n == Cardinality(U)
            m == Cardinality(I)
        IN  /\ Len(utilMat.values) = n
            /\ \A r \in 1..n : Len(utilMat.values[r]) = m
            /\ Len(utilMat.index) = n
            /\ Len(utilMat.columns) = m
            /\ DOMAIN users_index = U
            /\ DOMAIN items_index = I
            /\ {users_index[u] : u \in U} = 0..(n - 1)
            /\ {items_index[it] : it \in I} = 0..(m - 1)
            /\ \A u \in U : utilMat.index[users_index[u] + 1] = u
            /\ \A it \in I : utilMat.columns[items_index[it] + 1] = it

C17_Witness ==
    /\ cell = "done"
    /\ Len(train) = 3
    /\ utilMat.index = <<"2", "1">>
    /\ utilMat.columns = <<"2", "1">>
    /\ users_index["2"] = 0
    /\ items_index["1"] = 1

\* C19 (as claimed): after the split cell every row of data is in exactly
\* one of train and test.
C19_EveryRowSplit ==
    cell = "done" =>
        \A k \in 1..Len(data) :
            (data[k] \in Range(train)) # (data[k] \in Range(test))

\* C20 (as claimed): of the n ratings of a user, int(test_ratio * n) are in
\* test and the other n - int(test_ratio * n) in train.
C20_TestShare ==
    cell = "done" =>
        \A u \in Range(iloc_column(data, 0)) :
            LET n == Len(rows_of(data, u))
            IN  /\ Len(rows_of(test, u)) = int(RMul(test_ratio, <<n, 1>>))
                /\ Len(rows_of(train, u)) = n - int(RMul(test_ratio, <<n, 1>>))

\* the k-th word of a returned string
WordOf(str, k) == str[2 * k - 1]

\* the weight row t gives the word w
WeightOf(t, w) == t[CHOOSE j \in 1..Len(vocab) : vocab[j] = w]

\* C21: show_topics returns one string per row, in row order; the string of
\* a row is num_top_words different vocabulary words separated by blanks,
\* their weights in that row never rising from one word to the next and no
\* word left out weighing more than one listed.
C21_TopWords ==
    cell = "done" =>
        /\ Len(topics) = Len(topic_rows)
        /\ \A r \in 1..Len(topics) :
              LET str == topics[r]
                  t == topic_rows[r]
                  listed == {WordOf(str, k) : k \in 1..num_top_words}
              IN  /\ Len(str) = 2 * num_top_words - 1
                  /\ \A k \in 1..(num_top_words - 1) : str[2 * k] = " "
                  /\ listed \subseteq Range(vocab)
                  /\ Cardinality(listed) = num_top_words
                  /\ \A k \in 1..(num_top_words - 1) :
                        WeightOf(t, WordOf(str, k)) >= WeightOf(t, WordOf(str, k + 1))
                  /\ \A w \in Range(vocab) \ listed :
                        \A k \in 1..num_top_words :
                            WeightOf(t, w) <= WeightOf(t, WordOf(str, k))

C21_Witness ==
    /\ cell = "done"
    /\ Len(topics) = 2
    /\ topics[1] # topics[2]
    /\ WordOf(topics[1], 1) = "graphics"
    /\ WordOf(topics[2], 1) = "edu"
    /\ WeightOf(topic_rows[2], WordOf(topics[2], 1))
          = WeightOf(topic_rows[2], WordOf(topics[2], 2))

\* a point is feasible when no constraint has negative slack
Feasible == \A r \in 1..Len(slack) : slack[r] >= 0

\* twice the multipliers (1/2, 1/2, 1, 0, 0, 1/2, 0) of the seven constraints
TwiceDual == <<1, 1, 2, 0, 0, 1, 0>>

\* the multipliers are not negative, combine the rows of G to -c and the
\* entries of h to 195: every x with G*x <= h then has -c'x <= 195
DualBound ==
    /\ \A r \in 1..Len(lp_h) : TwiceDual[r] >= 0
    /\ \A j \in 1..Len(lp_G) :
          ISum([r \in 1..Len(lp_h) |-> lp_G[j][r] * TwiceDual[r]], Len(lp_h)) = -2 * lp_c[j]
    /\ ISum([r \in 1..Len(lp_h) |-> lp_h[r] * TwiceDual[r]], Len(lp_h)) = 2 * 195

\* C22: (1, 1, 4, 189) satisfies every encoded constraint and has
\* x1 + x2 + x3 + x4 = 195; no point satisfying them has a larger sum.
C22_LPOptimum ==
    /\ DualBound
    /\ cell = "done" =>
          /\ sol_x = ExpectedSolution => Feasible /\ pcost = -195
          /\ Feasible => sol_x[1] + sol_x[2] + sol_x[3] + sol_x[4] <= 195
          /\ pcost = -(sol_x[1] + sol_x[2] + sol_x[3] + sol_x[4])

C22_Witness ==
    /\ cell = "done"
    /\ sol_x = <<1, 1, 4, 189>>
    /\ Feasible
    /\ slack[6] = 0
    /\ pcost = -195

\* the entries of the residual Mat - W@H
ResidualEntries ==
    {MSub(Mat, matmul(W, H))[r][q] : r \in 1..Rows(Mat), q \in 1..Cols(Mat)}

\* |mean(Mat - W@H)| at the factors the i-th iteration started from, which
\* the iteration before it produced; 0 before the first iteration
PreviousMean ==
    IF i = 1 THEN Zero
    ELSE RAbs(mean(MSub(Mat, matmul(w_history[i], h_history[i]))))

\* C23: sgd returns as soon as the absolute mean of the residual has changed
\* by less than epsilon from one iteration to the next, whatever the single
\* entries of the residual are; the witness is a return with entries of both
\* signs that are at least epsilon away from 0 while their mean is not.
C23_ReturnsOnMeanAlone ==
    Iterated /\ Explored =>
        (pc \in {"return", "done"}
            <=> RLess(RAbs(RSub(PreviousMean, RAbs(mean(MSub(Mat, matmul(W, H)))))),
                      epsilon))

C23_Witness ==
    /\ pc = "return"
    /\ i >= 2
    /\ eta # Zero
    /\ Explored
    /\ \E e \in ResidualEntries : ~RLess(e, epsilon)
    /\ \E e \in ResidualEntries : ~RLess(RNeg(epsilon), e)
    /\ RLess(RAbs(mean(MSub(Mat, matmul(W, H)))), epsilon)

\* A with d added to its entry (r, q)
Bump(A, r, q, d) ==
    Dense([u \in 1..Rows(A) |->
              [v \in 1..Cols(A) |->
                  IF u = r /\ v = q THEN RAdd(A[u][v], d) ELSE A[u][v]]],
          Rows(A), Cols(A))

\* the derivative of the value of lossfunc in the entry (r, q) of W: the
\* value is a polynomial of degree 2 in one entry, so the central difference
\* quotient is the derivative
SlopeW(r, q) ==
    RMul(Half, RSub(lossfunc(Mat, Bump(W, r, q, <<1, 1>>), H, lamda),
                    lossfunc(Mat, Bump(W, r, q, <<-1, 1>>), H, lamda)))

\* the derivative of the value of lossfunc in the entry (r, q) of H
SlopeH(r, q) ==
    RMul(Half, RSub(lossfunc(Mat, W, Bump(H, r, q, <<1, 1>>), lamda),
                    lossfunc(Mat, W, Bump(H, r, q, <<-1, 1>>), lamda)))

\* C24: lossfunc has ||Mat - W@H||^2 where the objective has ||H||^2 in the
\* lambda term, and grads is not its gradient: grad_w exceeds the derivative
\* of lossfunc in W by lamda * (Mat - W@H)@H.T, and grad_h exceeds the one
\* in H by lamda * (H + W.T@(Mat - W@H)).
C24_GradsNotOfLossfunc ==
    pc = "while" /\ Explored =>
        LET R == MSub(Mat, matmul(W, H))
            RHt == matmul(R, Transpose(H))
            WtR == matmul(Transpose(W), R)
            g == grads(Mat, W, H, lamda)
        IN  /\ RSub(lossfunc(Mat, W, H, lamda), Objective(Mat, W, H, lamda))
                  = RMul(RMul(Half, lamda), RSub(SquareNorm(R), SquareNorm(H)))
            /\ \A r \in 1..Rows(W), q \in 1..Cols(W) :
                  RSub(g[1][r][q], SlopeW(r, q)) = RMul(lamda, RHt[r][q])
            /\ \A r \in 1..Rows(H), q \in 1..Cols(H) :
                  RSub(g[2][r][q], SlopeH(r, q))
                      = RMul(lamda, RAdd(H[r][q], WtR[r][q]))

C24_Witness ==
    /\ pc = "while"
    /\ Iterated
    /\ Explored
    /\ lamda # Zero
    /\ grads(Mat, W, H, lamda)[1][1][1] # SlopeW(1, 1)
    /\ grads(Mat, W, H, lamda)[2][1][1] # SlopeH(1, 1)
    /\ lossfunc(Mat, W, H, lamda) # Objective(Mat, W, H, lamda)

\* C25 (as claimed): sgd has completed at least two iterations when it returns.
C25_AtLeastTwoIterations ==
    pc \in {"return", "done"} => i >= 2

\* C26: the histories are only written and returned.  Every iteration takes
\* its new W, H, i, Error1, Error2 and its decision to stop from Mat, W, H,
\* eta, lamda, epsilon, i and Error2 alone, and the return hands out W, H, i
\* and Error2 as they are; so runs that differ only in the histories make
\* the same updates and stop at the same iteration.
C26_HistoriesOnlyReported ==
    [][/\ pc = "while" =>
            /\ <<W', H'>> = Step(Mat, W, H, eta, lamda)
            /\ i' = i + 1
            /\ Error1' = Error2
            /\ Error2' = RAbs(mean(MSub(Mat, matmul(W', H'))))
            /\ pc' = IF RLess(RAbs(RSub(Error2, Error2')), epsilon)
                     THEN "return" ELSE "while"
       /\ pc = "return" =>
            /\ <<ret'[1], ret'[2], ret'[6], ret'[7]>> = <<W, H, i, Error2>>
            /\ <<W', H', i', Error1', Error2'>> = <<W, H, i, Error1, Error2>>
            /\ pc' = "done"]_vars

C26_Witness ==
    /\ pc = "done"
    /\ i = 3
    /\ Len(ret[3]) = 3 /\ Len(ret[4]) = 3 /\ Len(ret[5]) = 3
    /\ ret[3][2] # ret[3][3]
    /\ ret[5][2] # ret[5][3]

\* C27: at every loop head and at return the three histories have i
\* entries; the k-th recorded pair is the pair the k-th update started from
\* (the first is the initial pair, each next one the update of the one
\* before), the k-th loss is lossfunc at the k-th pair, and the current W and
\* H, which are returned, are the update of the last recorded pair and are
\* not in the histories.
C27_HistoryContents ==
    /\ [](/\ Len(w_history) = i
          /\ Len(h_history) = i
          /\ Len(loss_history) = i
          /\ \A k \in 1..i :
                /\ loss_history[k] = lossfunc(Mat, w_history[k], h_history[k], lamda)
                /\ Step(Mat, w_history[k], h_history[k], eta, lamda)
                      = IF k < i THEN <<w_history[k + 1], h_history[k + 1]>>
                                 ELSE <<W, H>>
          /\ pc = "done" =>
                /\ <<ret[1], ret[2]>> = <<W, H>>
                /\ <<ret[3], ret[4], ret[5]>> = <<loss_history, h_history, w_history>>)
    /\ [][pc = "while" =>
            /\ w_history' = Append(w_history, W)
            /\ h_history' = Append(h_history, H)]_vars

C27_Witness ==
    /\ pc = "done"
    /\ i = 3
    /\ Len(ret[5]) = 3
    /\ ret[1] # ret[5][3]
    /\ ret[5][1] # ret[5][2]
    /\ ret[4][2] # ret[4][3]

\* C28: an iteration after the first that leaves W and H as they were has
\* the error estimate of the iteration before it and ends the loop; with
\* eta = 0 sgd is out of the loop after at most 2 iterations, W and H being
\* the initial pair.
C28_UnchangedFactorsStop ==
    /\ [][pc = "while" /\ i >= 1 /\ i' = i + 1 /\ W' = W /\ H' = H =>
            /\ Error2' = Error2
            /\ Error1' = Error2'
            /\ pc' = "return"]_vars
    /\ [](eta = Zero =>
            /\ i <= 2
            /\ i = 2 => pc \in {"return", "done"}
            /\ i >= 1 => W = w_history[1] /\ H = h_history[1]
            /\ pc = "done" => ret[1] = w_history[1] /\ ret[2] = h_history[1])

C28_Witness ==
    /\ pc = "done"
    /\ eta = Zero
    /\ i = 2
    /\ Error1 = Error2
    /\ Error2 # Zero
    /\ ret[1] = w_history[1]

\* an iteration after the first that changed nothing although eta is not 0
ZeroGradientStop ==
    /\ pc = "return"
    /\ eta # Zero
    /\ i >= 2
    /\ W = w_history[i]
    /\ H = h_history[i]

=============================================================================
